---- MODULE Spec2Model ----
EXTENDS Integers, Sequences, FiniteSets, TLC

\* scripts/create-768-dim-index.py : one pass of the script per run r \in Runs.
\* The remote service (Pinecone) holds the list of indexes; every remote call
\* may raise (network, auth, quota), modelled as a nondeterministic outcome.

NRuns == 2
Runs == 1..NRuns

IndexName == "lens-tool-768"
Dimension == 768
Metric == "cosine"
SpecArg == [serverless |-> [cloud |-> "aws", region |-> "us-east-1"]]
CreateArg == [name |-> IndexName, dimension |-> Dimension, metric |-> Metric, spec |-> SpecArg]

OtherName == "other-index"
Names == {IndexName, OtherName}
Dims == {512, Dimension}

\* possible contents of the service before any run
InitialIndexes ==
  {<<>>,
   <<[name |-> OtherName, dimension |-> 512]>>,
   <<[name |-> IndexName, dimension |-> Dimension]>>,
   <<[name |-> OtherName, dimension |-> 512], [name |-> IndexName, dimension |-> 512]>>}

Terminal == {"done", "error", "crashed"}

VARIABLES indexes, apiKeySet, stdoutUtf8, pc, seen, firstOk, log, createArgs, listed, creator

vars == <<indexes, apiKeySet, stdoutUtf8, pc, seen, firstOk, log, createArgs, listed, creator>>

NamesOf(s) == {s[i].name : i \in 1..Len(s)}

\* creator: the run whose create_index registered lens-tool-768 (0 = none)
Init ==
  /\ indexes \in InitialIndexes
  /\ apiKeySet \in [Runs -> BOOLEAN]
  /\ stdoutUtf8 \in [Runs -> BOOLEAN]
  /\ pc = [r \in Runs |-> "construct"]
  /\ seen = [r \in Runs |-> {}]
  /\ firstOk = [r \in Runs |-> FALSE]
  /\ log = [r \in Runs |-> <<>>]
  /\ createArgs = [r \in Runs |-> <<>>]
  /\ listed = [r \in Runs |-> <<>>]
  /\ creator = 0

\* lines 39-40: except Exception as e: print(f"❌ Error: {e}"). The print
\* itself raises UnicodeEncodeError when stdout cannot encode '❌', and that
\* exception escapes the script.
Handler(r, events) ==
  IF stdoutUtf8[r]
    THEN /\ pc' = [pc EXCEPT ![r] = "error"]
         /\ log' = [log EXCEPT ![r] = @ \o events \o <<"error">>]
    ELSE /\ pc' = [pc EXCEPT ![r] = "crashed"]
         /\ log' = [log EXCEPT ![r] = @ \o events]

\* line 8: pc = Pinecone(api_key=os.environ.get('PINECONE_API_KEY')), outside
\* the try block; with no key the constructor raises and the script dies.
\* Runs of Spec start concurrently.
Construct(r) ==
  /\ pc[r] = "construct"
  /\ log' = [log EXCEPT ![r] = Append(@, "construct")]
  /\ IF apiKeySet[r]
       THEN pc' = [pc EXCEPT ![r] = "list1"]
       ELSE pc' = [pc EXCEPT ![r] = "crashed"]
  /\ UNCHANGED <<indexes, apiKeySet, stdoutUtf8, seen, firstOk, createArgs, listed, creator>>

\* runs started one after the other
ConstructSeq(r) ==
  /\ \A q \in Runs : q < r => pc[q] \in Terminal
  /\ Construct(r)

\* mutant: the membership test never matches
List1AlwaysCreate(r) ==
  /\ pc[r] = "list1"
  /\ \E ok \in BOOLEAN :
       IF ok
         THEN /\ seen' = [seen EXCEPT ![r] = NamesOf(indexes)]
              /\ firstOk' = [firstOk EXCEPT ![r] = TRUE]
              /\ pc' = [pc EXCEPT ![r] = "create"]
              /\ log' = [log EXCEPT ![r] = Append(@, "list1")]
         ELSE /\ Handler(r, <<"list1">>)
              /\ UNCHANGED <<seen, firstOk>>
  /\ UNCHANGED <<indexes, apiKeySet, stdoutUtf8, createArgs, listed, creator>>

\* lines 15-18: existing_indexes = [index.name for index in pc.list_indexes()];
\* if index_name in existing_indexes: print("already exists") else go to create
List1(r) ==
  /\ pc[r] = "list1"
  /\ \E ok \in BOOLEAN :
       IF ok
         THEN /\ seen' = [seen EXCEPT ![r] = NamesOf(indexes)]
              /\ firstOk' = [firstOk EXCEPT ![r] = TRUE]
              /\ IF IndexName \in NamesOf(indexes)
                   THEN /\ pc' = [pc EXCEPT ![r] = "list2"]
                        /\ log' = [log EXCEPT ![r] = @ \o <<"list1", "exists">>]
                   ELSE /\ pc' = [pc EXCEPT ![r] = "create"]
                        /\ log' = [log EXCEPT ![r] = Append(@, "list1")]
         ELSE /\ Handler(r, <<"list1">>)
              /\ UNCHANGED <<seen, firstOk>>
  /\ UNCHANGED <<indexes, apiKeySet, stdoutUtf8, createArgs, listed, creator>>

\* service side of create_index: a name that already exists is rejected (409)
CreateAccepted(idx, arg) == arg.name \notin NamesOf(idx)

\* mutant: create overwrites the list of indexes
CreateReplaces(r) ==
  /\ pc[r] = "create"
  /\ createArgs' = [createArgs EXCEPT ![r] = Append(@, CreateArg)]
  /\ \E ok \in BOOLEAN :
       IF ok /\ CreateAccepted(indexes, CreateArg)
         THEN /\ indexes' = <<[name |-> CreateArg.name, dimension |-> CreateArg.dimension]>>
              /\ creator' = r
              /\ pc' = [pc EXCEPT ![r] = "wait"]
              /\ log' = [log EXCEPT ![r] = Append(@, "create")]
         ELSE /\ Handler(r, <<"create">>)
              /\ UNCHANGED <<indexes, creator>>
  /\ UNCHANGED <<apiKeySet, stdoutUtf8, seen, firstOk, listed>>

\* lines 21-31, first half of pc.create_index(...): the create request; the
\* service registers the index or the call raises
Create(r) ==
  /\ pc[r] = "create"
  /\ createArgs' = [createArgs EXCEPT ![r] = Append(@, CreateArg)]
  /\ \E ok \in BOOLEAN :
       IF ok /\ CreateAccepted(indexes, CreateArg)
         THEN /\ indexes' = Append(indexes, [name |-> CreateArg.name, dimension |-> CreateArg.dimension])
              /\ creator' = r
              /\ pc' = [pc EXCEPT ![r] = "wait"]
              /\ log' = [log EXCEPT ![r] = Append(@, "create")]
         ELSE /\ Handler(r, <<"create">>)
              /\ UNCHANGED <<indexes, creator>>
  /\ UNCHANGED <<apiKeySet, stdoutUtf8, seen, firstOk, listed>>

\* lines 21-32, second half: create_index polls describe_index until the index
\* is ready (this may raise), then print(f"✅ Created ..."), which raises on a
\* stdout that cannot encode '✅'; both failures go to the handler
CreateWait(r) ==
  /\ pc[r] = "wait"
  /\ \E ok \in BOOLEAN :
       IF ok /\ stdoutUtf8[r]
         THEN /\ pc' = [pc EXCEPT ![r] = "list2"]
              /\ log' = [log EXCEPT ![r] = Append(@, "created")]
         ELSE Handler(r, <<>>)
  /\ UNCHANGED <<indexes, apiKeySet, stdoutUtf8, seen, firstOk, createArgs, listed, creator>>

\* mutant: the final listing may run before the create decision completes
List2EarlyList(r) ==
  /\ pc[r] \in {"list2", "create"}
  /\ \E ok \in BOOLEAN :
       IF ok
         THEN /\ listed' = [listed EXCEPT ![r] = [i \in 1..Len(indexes) |-> <<indexes[i].name, indexes[i].dimension>>]]
              /\ pc' = [pc EXCEPT ![r] = "done"]
              /\ log' = [log EXCEPT ![r] = @ \o <<"list2", "listing">>]
         ELSE /\ Handler(r, <<"list2">>)
              /\ UNCHANGED listed
  /\ UNCHANGED <<indexes, apiKeySet, stdoutUtf8, seen, firstOk, createArgs, creator>>

\* lines 35-37: print header, then for index in pc.list_indexes(): print name,
\* dimension (all ASCII); a failing list_indexes goes to the handler
List2(r) ==
  /\ pc[r] = "list2"
  /\ \E ok \in BOOLEAN :
       IF ok
         THEN /\ listed' = [listed EXCEPT ![r] = [i \in 1..Len(indexes) |-> <<indexes[i].name, indexes[i].dimension>>]]
              /\ pc' = [pc EXCEPT ![r] = "done"]
              /\ log' = [log EXCEPT ![r] = @ \o <<"list2", "listing">>]
         ELSE /\ Handler(r, <<"list2">>)
              /\ UNCHANGED listed
  /\ UNCHANGED <<indexes, apiKeySet, stdoutUtf8, seen, firstOk, createArgs, creator>>

Next ==
  \E r \in Runs : Construct(r) \/ List1(r) \/ Create(r) \/ CreateWait(r) \/ List2(r)

Spec == Init /\ [][Next]_vars

SeqNext ==
  \E r \in Runs : ConstructSeq(r) \/ List1(r) \/ Create(r) \/ CreateWait(r) \/ List2(r)

SeqSpec == Init /\ [][SeqNext]_vars

Count(s, e) == Cardinality({i \in 1..Len(s) : s[i] = e})

InLog(r, e) == Count(log[r], e) > 0

\* the first list_indexes call of run r returned normally
ListedOk(r) == firstOk[r]

NamedCount == Cardinality({i \in 1..Len(indexes) : indexes[i].name = IndexName})

\* C1: once a run has ended after a successful first listing, create_index was
\* called exactly once with the documented arguments if the name was absent
\* from that listing, and never if it was present.
C1_CreateIffAbsent ==
  \A r \in Runs :
     (pc[r] \in Terminal /\ ListedOk(r)) =>
        IF "lens-tool-768" \in seen[r]
          THEN createArgs[r] = <<>>
          ELSE createArgs[r] =
                 <<[name |-> "lens-tool-768", dimension |-> 768, metric |-> "cosine",
                    spec |-> [serverless |-> [cloud |-> "aws", region |-> "us-east-1"]]]>>

C1_Witness ==
  \E r, q \in Runs : pc[r] = "done" /\ createArgs[r] # <<>> /\ pc[q] \in Terminal /\ ListedOk(q) /\ IndexName \in seen[q]

\* C2: no failure escapes the script: no run ends with an uncaught exception.
C2_AllCaught == \A r \in Runs : pc[r] # "crashed"

\* C3: a run that has ended did so after printing the listing or the error,
\* and attempted each remote operation at most once.
C3_OnePass ==
  \A r \in Runs :
     pc[r] \in Terminal =>
        /\ pc[r] \in {"done", "error"}
        /\ Count(log[r], "list1") <= 1
        /\ Count(log[r], "create") <= 1
        /\ Count(log[r], "list2") <= 1

\* C4: a successful run performed construct, first listing, create-or-skip,
\* final listing in that order, and printed every index with name and dimension.
C4_Order ==
  \A r \in Runs :
     pc[r] = "done" =>
        /\ log[r] \in {<<"construct", "list1", "exists", "list2", "listing">>,
                       <<"construct", "list1", "create", "created", "list2", "listing">>}
        /\ \A i \in 1..Len(listed[r]) : listed[r][i][1] \in Names /\ listed[r][i][2] \in Dims

C4_Witness ==
  \E r \in Runs : pc[r] = "done" /\ InLog(r, "created") /\ Len(listed[r]) >= 2

\* C5: the list of indexes only grows, and every added index is named lens-tool-768.
C5_OnlyGrows ==
  [][ /\ \A i \in 1..Len(indexes) : \E j \in 1..Len(indexes') : indexes'[j] = indexes[i]
      /\ \A j \in 1..Len(indexes') :
            (\A i \in 1..Len(indexes) : indexes[i] # indexes'[j]) => indexes'[j].name = "lens-tool-768"
    ]_vars

C5_Witness ==
  /\ \E r \in Runs : InLog(r, "created")
  /\ Len(indexes) >= 2

\* C6: after a failed first listing or failed create nothing else happens in
\* the run and the run's last output is the error line: no create after a
\* failed listing, no final listing after a failed create.
C6_FailureSkips ==
  \A r \in Runs :
     /\ \A i \in 1..Len(log[r]) : log[r][i] = "error" => i = Len(log[r])
     /\ (InLog(r, "list1") /\ ~ListedOk(r)) => createArgs[r] = <<>> /\ ~InLog(r, "list2")
     /\ (InLog(r, "create") /\ ~InLog(r, "created")) => listed[r] = <<>> /\ ~InLog(r, "list2")
     /\ (pc[r] \in Terminal /\ ((InLog(r, "list1") /\ ~ListedOk(r)) \/ (InLog(r, "create") /\ ~InLog(r, "created"))))
           => log[r][Len(log[r])] = "error"

\* C7 (original): after any number of sequential runs have all ended, the
\* service holds exactly one index named lens-tool-768.
C7_ExactlyOne ==
  (\A r \in Runs : pc[r] \in Terminal) => NamedCount = 1

\* C7 (amended): across sequential runs there is never more than one index named
\* lens-tool-768; once a run's create_index call has registered it (even if the
\* call then raised while waiting for readiness), no later run calls
\* create_index, and every later run whose first listing succeeds reports that
\* the index already exists.
C7_AtMostOneSequential ==
  /\ NamedCount <= 1
  /\ \A q, r \in Runs :
        (q < r /\ creator = q) =>
           /\ createArgs[r] = <<>>
           /\ (ListedOk(r) => InLog(r, "exists"))

C7_Witness ==
  /\ creator = 1 /\ pc[1] = "error" /\ ~InLog(1, "created")
  /\ \A r \in Runs : r > 1 => pc[r] = "done" /\ InLog(r, "exists")

====
